---- MODULE Spec2Model ----
(***************************************************************************)
(* Peer-mesh signaling and connection orchestrator (WebRTCService).        *)
(*                                                                         *)
(* Every instance of the service is indexed by its userId.  The            *)
(* specifications share the handlers:                                      *)
(*   Spec       one instance (Self) driven by an environment that delivers *)
(*              any signaling message of the room's user ids, fails        *)
(*              platform operations, raises track and connection-state     *)
(*              events and calls leaveRoom once;                           *)
(*   AuditSpec  Spec without candidates and track events, with a history   *)
(*              of the failed offer creations per peer;                    *)
(*   MeshSpec   RoomSize instances joined to one broadcast room, where the *)
(*              only messages are the ones the instances send;             *)
(*   LeaveSpec  Self with repeated calls of leaveRoom;                     *)
(*   EventSpec  Self with the ICE and connection-state events;             *)
(*   StreamSpec Self with stream swaps and a repeated initialize;          *)
(*   SwapSpec   Self with two remote peers and stream swaps;               *)
(*   FaultSpec  Self with two remote peers and failing platform calls;     *)
(*   TrioSpec   NumPeers instances that join one room one after the other; *)
(*   ShareSpec  Self with the screen-share toggle of the meeting page.     *)
(* A handler is an async function: the code between two awaits is one      *)
(* atomic step, and a suspended handler is a task record.                  *)
(***************************************************************************)
EXTENDS Integers, FiniteSets, Sequences, TLC

\* ---------------------------------------------------------------- bounds
NumPeers == 3        \* user ids 1..NumPeers
RoomSize == 2        \* user ids 1..RoomSize: the instances of the room of MeshSpec,
                     \* and the sender ids of the messages that reach Self in Spec
NumStreams == 2      \* media streams 1..NumStreams (camera, screen)
MaxConns == 2        \* connection objects an instance holds at one time
MaxTasks == 2        \* handlers of one instance suspended at an await
MaxLeaveCalls == 2   \* calls of leaveRoom per instance
MaxHandlers == 2     \* broadcast callbacks an instance binds to the room topic

\* ------------------------------------------------------ program constants
maxConnectionAttempts == 3

Peers == 1..NumPeers
Room == 1..RoomSize
Streams == 1..NumStreams
Slots == 1..MaxConns
\* The instance the environment of Spec drives: the lowest userId.
Self == CHOOSE i \in Peers : \A j \in Peers : i <= j
\* The stream Meeting passes to initialize: the camera, the lowest stream id.
Camera == CHOOSE s \in Streams : \A t \in Streams : s <= t

VARIABLES
  phase,               \* position of initialize: "new", "setup", "joined"
  supabaseChannel,     \* this.supabaseChannel is set
  subscribed,          \* the channel delivers room broadcasts to the instance
  joining,             \* subscribe() was called and its outcome is pending
  peerConnections,     \* this.peerConnections: peer id -> record
  connectionAttempts,  \* this.connectionAttempts: peer id -> count (0: absent)
  conns,               \* the RTCPeerConnection objects of the instance
  tasks,               \* handlers suspended at an await
  leavePc,             \* position of leaveRoom: "idle", "send", "unsubscribe"
  leaveCalls,          \* calls of leaveRoom so far
  net,                 \* signaling messages in flight
  offerFailures,       \* history: peer id -> failed offer creations (up to the
                       \* maximum), for the peer ids the specification counts
  localStream,         \* this.localStream: a stream id (0: null)
  ended,               \* the streams whose tracks the instance has stopped
  handlers,            \* broadcast callbacks bound to the room topic by .on(...)
  last                 \* what the latest step did (callbacks, errors, creations)

vars == <<phase, supabaseChannel, subscribed, joining, peerConnections, connectionAttempts,
          conns, tasks, leavePc, leaveCalls, net, offerFailures, localStream,
          ended, handlers, last>>

\* ------------------------------------------------------------ data model
NoRec == [conn |-> 0, stream |-> 0]

\* An unused slot of conns.
\* sig is signalingState ("closed" after close()); done is the role in which the
\* connection last completed an offer/answer exchange; senders is the set of the
\* streams whose tracks the senders of the connection reference.
Free == [peer |-> 0, sig |-> "stable", done |-> "none", senders |-> {}]

\* close(): nothing of a closed connection is read again but that it is closed.
Close(cn) == [Free EXCEPT !.peer = cn.peer, !.sig = "closed"]

\* The streams whose tracks addTrack gives a connection for local stream ls.
TracksOf(ls) == IF ls = 0 THEN {} ELSE {ls}

\* new RTCPeerConnection(...) with the tracks of the local stream added and the
\* handlers bound to peerId.
NewConn(i, peerId) == [Free EXCEPT !.peer = peerId, !.senders = TracksOf(localStream[i])]

\* What a step did, for instance inst and peer id peer:
\*   had, stream  a record for peer was in the registry before the step, and
\*                its stream was set;
\*   attempts     the attempt counter of peer before the step;
\*   created      a connection object was created;
\*   threw        the handler ended by throwing;
\*   removed      the peer ids whose record left the registry;
\*   disc         the peer ids onPeerDisconnected was invoked for;
\*   remote       the peer id onRemoteStream was invoked for (0: not invoked);
\*   sent         the type of the signaling message sent ("none": nothing);
\*   failed       a catch block of a handler ran;
\*   sendFailed   channel.send threw and sendSignalingMessage logged the error;
\*   stopped      the stream whose tracks were stopped (0: none);
\*   stale        the connection that raised the event was not the connection of
\*                the record of peer.
NoEvent == [op |-> "init", inst |-> 0, peer |-> 0, had |-> FALSE, stream |-> FALSE,
            attempts |-> 0, created |-> FALSE, threw |-> FALSE, removed |-> {}, disc |-> {},
            remote |-> 0, sent |-> "none", failed |-> FALSE, sendFailed |-> FALSE,
            stopped |-> 0, stale |-> FALSE]

Event(op, i, p) ==
  [NoEvent EXCEPT !.op = op, !.inst = i, !.peer = p,
                  !.had = (p # 0 /\ peerConnections[i][p].conn # 0),
                  !.stream = (p # 0 /\ peerConnections[i][p].stream # 0),
                  !.attempts = IF p # 0 THEN connectionAttempts[i][p] ELSE 0]

HasFree(i) == \E c \in Slots : conns[i][c].peer = 0

FreeSlot(i) == CHOOSE c \in Slots :
                 /\ conns[i][c].peer = 0
                 /\ \A d \in Slots : d < c => conns[i][d].peer # 0

\* A closed connection no handler still holds is garbage: its slot is reused.
Collect(cs, ts) ==
  [c \in Slots |-> IF cs[c].sig = "closed" /\ ~(\E t \in ts : t.conn = c) THEN Free ELSE cs[c]]

Task(kind, p, c, pc, target) ==
  [kind |-> kind, peer |-> p, conn |-> c, pc |-> pc, target |-> target]

Msg(type, from, to, target) == [type |-> type, from |-> from, to |-> to, target |-> target]

Init ==
  /\ phase = [i \in Peers |-> "new"]
  /\ supabaseChannel = [i \in Peers |-> FALSE]
  /\ subscribed = [i \in Peers |-> FALSE]
  /\ joining = [i \in Peers |-> FALSE]
  /\ peerConnections = [i \in Peers |-> [p \in Peers |-> NoRec]]
  /\ connectionAttempts = [i \in Peers |-> [p \in Peers |-> 0]]
  /\ conns = [i \in Peers |-> [c \in Slots |-> Free]]
  /\ tasks = [i \in Peers |-> {}]
  /\ leavePc = [i \in Peers |-> "idle"]
  /\ leaveCalls = [i \in Peers |-> 0]
  /\ net = {}
  /\ offerFailures = <<>>
  /\ localStream = [i \in Peers |-> 0]
  /\ ended = [i \in Peers |-> {}]
  /\ handlers = [i \in Peers |-> 0]
  /\ last = NoEvent

\* ------------------------------------------------------------- signaling
\* channel.send on a broadcast channel with self: false: every other subscriber.
Broadcast(i, type, target) ==
  {Msg(type, i, j, target) : j \in {k \in Peers : subscribed[k] /\ k # i}}

\* sendSignalingMessage letting the error of channel.send through.
sendSignalingMessage_NoCatch(i, type, target, ev) ==
  IF supabaseChannel[i]
  THEN \E delivered \in BOOLEAN :
         IF delivered
         THEN /\ net' = net \cup Broadcast(i, type, target)
              /\ last' = [ev EXCEPT !.sent = type]
         ELSE /\ last' = [ev EXCEPT !.sendFailed = TRUE, !.threw = TRUE]
              /\ UNCHANGED net
  ELSE /\ last' = ev
       /\ UNCHANGED net

\* sendSignalingMessage: nothing is sent without a channel; an error of
\* channel.send (delivered false) is caught and logged.  It never throws.
sendSignalingMessage(i, type, target, ev) ==
  IF supabaseChannel[i]
  THEN \E delivered \in BOOLEAN :
         IF delivered
         THEN /\ net' = net \cup Broadcast(i, type, target)
              /\ last' = [ev EXCEPT !.sent = type]
         ELSE /\ last' = [ev EXCEPT !.sendFailed = TRUE]
              /\ UNCHANGED net
  ELSE /\ last' = ev
       /\ UNCHANGED net

\* initialize up to the end of setupSignalingChannel: the fields are assigned
\* (Meeting calls initialize with its camera stream), the channel is created with
\* one broadcast callback bound, and stored; subscribe() is called and not
\* awaited, so the function returns while the subscription is pending.
setupSignalingChannel(i) ==
  /\ phase[i] = "new"
  /\ phase' = [phase EXCEPT ![i] = "setup"]
  /\ localStream' = [localStream EXCEPT ![i] = Camera]
  /\ supabaseChannel' = [supabaseChannel EXCEPT ![i] = TRUE]
  /\ joining' = [joining EXCEPT ![i] = TRUE]
  /\ handlers' = [handlers EXCEPT ![i] = 1]
  /\ last' = Event("setup", i, 0)
  /\ UNCHANGED <<subscribed, peerConnections, connectionAttempts, conns, tasks, leavePc,
                 leaveCalls, net, offerFailures, ended>>

\* The status callback of subscribe() with SUBSCRIBED: the channel has joined the
\* room topic and delivers its broadcasts from now on.
onSubscribed(i) ==
  /\ joining[i]
  /\ joining' = [joining EXCEPT ![i] = FALSE]
  /\ subscribed' = [subscribed EXCEPT ![i] = TRUE]
  /\ last' = Event("subscribed", i, 0)
  /\ UNCHANGED <<phase, supabaseChannel, peerConnections, connectionAttempts, conns, tasks,
                 leavePc, leaveCalls, net, offerFailures, localStream, ended, handlers>>

\* initialize: the Join announcement.  send() on a channel that has not joined
\* its topic yet delivers the broadcast over HTTP, or buffers it until the
\* channel has joined (the step then follows onSubscribed).
initialize(i) ==
  /\ phase[i] = "setup"
  /\ phase' = [phase EXCEPT ![i] = "joined"]
  /\ sendSignalingMessage(i, "join", 0, Event("initialize", i, 0))
  /\ UNCHANGED <<supabaseChannel, subscribed, joining, peerConnections, connectionAttempts,
                 conns, tasks, leavePc, leaveCalls, offerFailures, localStream, ended, handlers>>

\* initialize called again while joined, up to the end of setupSignalingChannel.
\* The fields are assigned again and one more broadcast callback is bound to the
\* room topic.  resubscribes: supabase.channel() makes a second channel object,
\* which is subscribed and stored, and initialize goes on to announce the Join
\* (true); or it returns the channel already open for the topic, whose second
\* subscribe() throws, and initialize rejects (false).
initializeAgain(i) ==
  /\ phase[i] = "joined"
  /\ subscribed[i]
  /\ handlers[i] < MaxHandlers
  /\ localStream' = [localStream EXCEPT ![i] = Camera]
  /\ handlers' = [handlers EXCEPT ![i] = @ + 1]
  /\ \E resubscribes \in BOOLEAN :
       IF resubscribes
       THEN /\ phase' = [phase EXCEPT ![i] = "setup"]
            /\ last' = Event("initializeAgain", i, 0)
       ELSE /\ last' = [Event("initializeAgain", i, 0) EXCEPT !.threw = TRUE]
            /\ UNCHANGED phase
  /\ UNCHANGED <<supabaseChannel, subscribed, joining, peerConnections, connectionAttempts, conns,
                 tasks, leavePc, leaveCalls, net, offerFailures, ended>>

\* ------------------------------------------------- handlers: up to the first await
\* Variables a handler never touches before its first await.
HandlerFrame == UNCHANGED <<phase, supabaseChannel, subscribed, joining, leavePc, leaveCalls, offerFailures, localStream, ended, handlers>>

Suspend(i, t) ==
  /\ t \notin tasks[i]
  /\ Cardinality(tasks[i]) < MaxTasks
  /\ tasks' = [tasks EXCEPT ![i] = @ \cup {t}]

\* handlePeerLeave with the callback moved out of the if (peerInfo) block.
handlePeerLeave_NotifyAlways(i, peerId, ev) ==
  LET rec == peerConnections[i][peerId] IN
  IF rec.conn # 0
  THEN /\ conns' = [conns EXCEPT ![i] =
                      Collect([conns[i] EXCEPT ![rec.conn] = Close(@)], tasks[i])]
       /\ peerConnections' = [peerConnections EXCEPT ![i][peerId] = NoRec]
       /\ connectionAttempts' = [connectionAttempts EXCEPT ![i][peerId] = 0]
       /\ last' = [ev EXCEPT !.removed = {peerId}, !.disc = {peerId}]
       /\ UNCHANGED tasks
  ELSE /\ last' = [ev EXCEPT !.disc = {peerId}]
       /\ UNCHANGED <<conns, peerConnections, connectionAttempts, tasks>>

\* handlePeerLeave with the reset of the attempt counter moved out of the
\* if (peerInfo) block.
handlePeerLeave_ResetAlways(i, peerId, ev) ==
  LET rec == peerConnections[i][peerId] IN
  IF rec.conn # 0
  THEN /\ conns' = [conns EXCEPT ![i] =
                      Collect([conns[i] EXCEPT ![rec.conn] = Close(@)], tasks[i])]
       /\ peerConnections' = [peerConnections EXCEPT ![i][peerId] = NoRec]
       /\ connectionAttempts' = [connectionAttempts EXCEPT ![i][peerId] = 0]
       /\ last' = [ev EXCEPT !.removed = {peerId}, !.disc = {peerId}]
       /\ UNCHANGED tasks
  ELSE /\ connectionAttempts' = [connectionAttempts EXCEPT ![i][peerId] = 0]
       /\ last' = ev
       /\ UNCHANGED <<conns, peerConnections, tasks>>

\* handlePeerLeave: close and forget the record of peerId, if there is one.
handlePeerLeave(i, peerId, ev) ==
  LET rec == peerConnections[i][peerId] IN
  IF rec.conn # 0
  THEN /\ conns' = [conns EXCEPT ![i] =
                      Collect([conns[i] EXCEPT ![rec.conn] = Close(@)], tasks[i])]
       /\ peerConnections' = [peerConnections EXCEPT ![i][peerId] = NoRec]
       /\ connectionAttempts' = [connectionAttempts EXCEPT ![i][peerId] = 0]
       /\ last' = [ev EXCEPT !.removed = {peerId}, !.disc = {peerId}]
       /\ UNCHANGED tasks
  ELSE /\ last' = ev
       /\ UNCHANGED <<conns, peerConnections, connectionAttempts, tasks>>

\* createPeerConnection with > in place of >= in its test of the attempt counter.
createPeerConnection_OffByOne(i, peerId) ==
  IF peerConnections[i][peerId].conn # 0
  THEN /\ last' = Event("join", i, peerId)
       /\ UNCHANGED <<conns, peerConnections, connectionAttempts, tasks>>
  ELSE IF connectionAttempts[i][peerId] > maxConnectionAttempts
  THEN /\ last' = [Event("join", i, peerId) EXCEPT !.threw = TRUE]
       /\ UNCHANGED <<conns, peerConnections, connectionAttempts, tasks>>
  ELSE /\ HasFree(i)
       /\ LET c == FreeSlot(i) IN
            /\ connectionAttempts' =
                 [connectionAttempts EXCEPT ![i][peerId] = connectionAttempts[i][peerId] + 1]
            /\ conns' = [conns EXCEPT ![i][c] = NewConn(i, peerId)]
            /\ peerConnections' =
                 [peerConnections EXCEPT ![i][peerId] = [conn |-> c, stream |-> 0]]
            /\ Suspend(i, Task("join", peerId, c, "offer", peerId))
            /\ last' = [Event("join", i, peerId) EXCEPT !.created = TRUE]

\* createPeerConnection up to the call of createOffer.
createPeerConnection(i, peerId) ==
  IF peerConnections[i][peerId].conn # 0
  THEN \* the existing connection is returned
       /\ last' = Event("join", i, peerId)
       /\ UNCHANGED <<conns, peerConnections, connectionAttempts, tasks>>
  ELSE IF connectionAttempts[i][peerId] >= maxConnectionAttempts
  THEN \* throw new Error("Maximum connection attempts reached")
       /\ last' = [Event("join", i, peerId) EXCEPT !.threw = TRUE]
       /\ UNCHANGED <<conns, peerConnections, connectionAttempts, tasks>>
  ELSE /\ HasFree(i)
       /\ LET c == FreeSlot(i) IN
            /\ connectionAttempts' =
                 [connectionAttempts EXCEPT ![i][peerId] = connectionAttempts[i][peerId] + 1]
            /\ conns' = [conns EXCEPT ![i][c] = NewConn(i, peerId)]
            /\ peerConnections' =
                 [peerConnections EXCEPT ![i][peerId] = [conn |-> c, stream |-> 0]]
            /\ Suspend(i, Task("join", peerId, c, "offer", peerId))
            /\ last' = [Event("join", i, peerId) EXCEPT !.created = TRUE]

\* handleOffer without its lookup of an existing record.
handleOffer_AlwaysNew(i, m) ==
  /\ HasFree(i)
  /\ LET c == FreeSlot(i) IN
       /\ conns' = [conns EXCEPT ![i][c] = NewConn(i, m.from)]
       /\ peerConnections' =
            [peerConnections EXCEPT ![i][m.from] = [conn |-> c, stream |-> 0]]
       /\ Suspend(i, Task("offer", m.from, c, "remote", m.target))
       /\ last' = [Event("offer", i, m.from) EXCEPT !.created = TRUE]
  /\ UNCHANGED connectionAttempts

\* handleOffer counting an attempt for the connection it creates.
handleOffer_CountsAttempt(i, m) ==
  LET rec == peerConnections[i][m.from] IN
  IF rec.conn # 0
  THEN /\ Suspend(i, Task("offer", m.from, rec.conn, "remote", m.target))
       /\ last' = Event("offer", i, m.from)
       /\ UNCHANGED <<conns, peerConnections, connectionAttempts>>
  ELSE /\ HasFree(i)
       /\ LET c == FreeSlot(i) IN
            /\ conns' = [conns EXCEPT ![i][c] = NewConn(i, m.from)]
            /\ peerConnections' =
                 [peerConnections EXCEPT ![i][m.from] = [conn |-> c, stream |-> 0]]
            /\ Suspend(i, Task("offer", m.from, c, "remote", m.target))
            /\ last' = [Event("offer", i, m.from) EXCEPT !.created = TRUE]
       /\ connectionAttempts' =
            [connectionAttempts EXCEPT ![i][m.from] =
               IF @ < maxConnectionAttempts THEN @ + 1 ELSE @]

\* handleOffer up to the call of setRemoteDescription.
handleOffer(i, m) ==
  LET rec == peerConnections[i][m.from] IN
  IF rec.conn # 0
  THEN /\ Suspend(i, Task("offer", m.from, rec.conn, "remote", m.target))
       /\ last' = Event("offer", i, m.from)
       /\ UNCHANGED <<conns, peerConnections, connectionAttempts>>
  ELSE /\ HasFree(i)
       /\ LET c == FreeSlot(i) IN
            /\ conns' = [conns EXCEPT ![i][c] = NewConn(i, m.from)]
            /\ peerConnections' =
                 [peerConnections EXCEPT ![i][m.from] = [conn |-> c, stream |-> 0]]
            /\ Suspend(i, Task("offer", m.from, c, "remote", m.target))
            /\ last' = [Event("offer", i, m.from) EXCEPT !.created = TRUE]
       /\ UNCHANGED connectionAttempts

\* handleAnswer forgetting the attempts of a sender it has no record for.
handleAnswer_ForgetsAttempts(i, m) ==
  LET rec == peerConnections[i][m.from] IN
  IF rec.conn = 0
  THEN /\ last' = Event("answer", i, m.from)
       /\ connectionAttempts' = [connectionAttempts EXCEPT ![i][m.from] = 0]
       /\ UNCHANGED <<conns, peerConnections, tasks>>
  ELSE /\ Suspend(i, Task("answer", m.from, rec.conn, "remote", m.target))
       /\ last' = Event("answer", i, m.from)
       /\ UNCHANGED <<conns, peerConnections, connectionAttempts>>

\* handleAnswer up to the call of setRemoteDescription.
handleAnswer(i, m) ==
  LET rec == peerConnections[i][m.from] IN
  IF rec.conn = 0
  THEN /\ last' = Event("answer", i, m.from)
       /\ UNCHANGED <<conns, peerConnections, connectionAttempts, tasks>>
  ELSE /\ Suspend(i, Task("answer", m.from, rec.conn, "remote", m.target))
       /\ last' = Event("answer", i, m.from)
       /\ UNCHANGED <<conns, peerConnections, connectionAttempts>>

\* handleCandidate: without a record it returns; a null candidate (candidate
\* false: end of candidates) is skipped; addIceCandidate changes nothing the
\* orchestrator keeps, and its rejection (rejected) is caught and logged.
handleCandidate(i, m) ==
  /\ \E candidate \in BOOLEAN, rejected \in BOOLEAN :
       /\ rejected => (candidate /\ peerConnections[i][m.from].conn # 0)
       /\ last' = [Event(IF candidate THEN "candidate" ELSE "end-of-candidates",
                         i, m.from) EXCEPT !.failed = rejected]
  /\ UNCHANGED <<conns, peerConnections, connectionAttempts, tasks>>

\* handleSignalingMessage without the senderId test of its join case.
handleSignalingMessage_NoJoinGuard(i, m) ==
  IF m.type # "leave" /\ m.type # "join" /\ m.from = i
  THEN /\ last' = Event("ignored", i, m.from)
       /\ UNCHANGED <<conns, peerConnections, connectionAttempts, tasks>>
  ELSE CASE m.type = "join" -> createPeerConnection(i, m.from)
         [] m.type = "offer" -> handleOffer(i, m)
         [] m.type = "answer" -> handleAnswer(i, m)
         [] m.type = "candidate" -> handleCandidate(i, m)
         [] m.type = "leave" ->
              handlePeerLeave(i, m.from, Event("leave", i, m.from))

\* handleSignalingMessage without its filter of self-originated messages.
handleSignalingMessage_NoSelfFilter(i, m) ==
  CASE m.type = "join" ->
         IF m.from # i
         THEN createPeerConnection(i, m.from)
         ELSE /\ last' = Event("ignored", i, m.from)
              /\ UNCHANGED <<conns, peerConnections, connectionAttempts, tasks>>
    [] m.type = "offer" -> handleOffer(i, m)
    [] m.type = "answer" -> handleAnswer(i, m)
    [] m.type = "candidate" -> handleCandidate(i, m)
    [] m.type = "leave" ->
         handlePeerLeave(i, m.from, Event("leave", i, m.from))

\* handleSignalingMessage: the self filter and the dispatch on the message type.
handleSignalingMessage(i, m) ==
  IF m.type # "leave" /\ m.type # "join" /\ m.from = i
  THEN /\ last' = Event("ignored", i, m.from)
       /\ UNCHANGED <<conns, peerConnections, connectionAttempts, tasks>>
  ELSE CASE m.type = "join" ->
              IF m.from # i
              THEN createPeerConnection(i, m.from)
              ELSE /\ last' = Event("ignored", i, m.from)
                   /\ UNCHANGED <<conns, peerConnections, connectionAttempts, tasks>>
         [] m.type = "offer" -> handleOffer(i, m)
         [] m.type = "answer" -> handleAnswer(i, m)
         [] m.type = "candidate" -> handleCandidate(i, m)
         [] m.type = "leave" ->
              handlePeerLeave(i, m.from, Event("leave", i, m.from))

\* ------------------------------------------------- handlers: after an await
\* A suspended handler is a task [kind, peer, conn, pc, target].  createOffer and
\* createAnswer change nothing the connection or the orchestrator keeps when they
\* resolve, and their rejection takes the same catch block as the rejection of the
\* setLocalDescription that follows, so each is one suspension with it:
\*   join    pc "offer"   createOffer, setLocalDescription(offer) pending
\*   offer   pc "remote"  setRemoteDescription(offer) pending
\*           pc "answer"  createAnswer, setLocalDescription(answer) pending
\*   answer  pc "remote"  setRemoteDescription(answer) pending
Resume(i, t, pc) == tasks' = [tasks EXCEPT ![i] = (@ \ {t}) \cup {[t EXCEPT !.pc = pc]}]

Finish(i, t) == tasks' = [tasks EXCEPT ![i] = @ \ {t}]

\* Whether the platform accepts the operation a task is waiting for.
\* rollback: setRemoteDescription(offer) on a connection with a pending local
\* offer rolls the local offer back (true) or is an InvalidStateError (false).
Accepts(cn, t, rollback) ==
  CASE t.kind = "join" -> cn.sig \in {"stable", "have-local-offer"}
    [] t.kind = "offer" /\ t.pc = "remote" ->
         cn.sig \in {"stable", "have-remote-offer"}
           \/ (cn.sig = "have-local-offer" /\ rollback)
    [] t.kind = "offer" /\ t.pc = "answer" -> cn.sig = "have-remote-offer"
    [] t.kind = "answer" -> cn.sig = "have-local-offer"

\* The catch block of createPeerConnection emptying the whole registry.
CatchOfferError_ClearRegistry(i, t) ==
  /\ Finish(i, t)
  /\ conns' = [conns EXCEPT ![i] =
                 Collect([conns[i] EXCEPT ![t.conn] = Close(@)], tasks[i] \ {t})]
  /\ peerConnections' = [peerConnections EXCEPT ![i] = [p \in Peers |-> NoRec]]
  /\ last' = [Event("join+", i, t.peer) EXCEPT
                !.threw = TRUE,
                !.failed = TRUE,
                !.removed = {p \in Peers : peerConnections[i][p].conn # 0}]
  /\ offerFailures' =
       IF t.peer \in DOMAIN offerFailures
       THEN [offerFailures EXCEPT ![t.peer] =
               IF @ < maxConnectionAttempts THEN @ + 1 ELSE @]
       ELSE offerFailures
  /\ UNCHANGED <<phase, supabaseChannel, subscribed, joining, connectionAttempts, leavePc,
                 leaveCalls, net, localStream, ended, handlers>>

\* The catch block of createPeerConnection: close, delete the entry of peerId, rethrow.
CatchOfferError(i, t) ==
  /\ Finish(i, t)
  /\ conns' = [conns EXCEPT ![i] =
                 Collect([conns[i] EXCEPT ![t.conn] = Close(@)], tasks[i] \ {t})]
  /\ peerConnections' = [peerConnections EXCEPT ![i][t.peer] = NoRec]
  /\ last' = [Event("join+", i, t.peer) EXCEPT
                !.threw = TRUE,
                !.failed = TRUE,
                !.removed = IF peerConnections[i][t.peer].conn # 0 THEN {t.peer} ELSE {}]
  /\ offerFailures' =
       IF t.peer \in DOMAIN offerFailures
       THEN [offerFailures EXCEPT ![t.peer] =
               IF @ < maxConnectionAttempts THEN @ + 1 ELSE @]
       ELSE offerFailures
  /\ UNCHANGED <<phase, supabaseChannel, subscribed, joining, connectionAttempts, leavePc,
                 leaveCalls, net, localStream, ended, handlers>>

\* The catch blocks of handleOffer and handleAnswer: the error is logged.
CatchNegotiationError(i, t) ==
  /\ Finish(i, t)
  /\ conns' = [conns EXCEPT ![i] = Collect(conns[i], tasks[i] \ {t})]
  /\ last' = [Event(IF t.kind = "offer" THEN "offer+" ELSE "answer+", i, t.peer)
                EXCEPT !.failed = TRUE]
  /\ UNCHANGED <<phase, supabaseChannel, subscribed, joining, peerConnections, connectionAttempts,
                 leavePc, leaveCalls, net, offerFailures, localStream, ended, handlers>>

Reject(i, t) == IF t.kind = "join" THEN CatchOfferError(i, t) ELSE CatchNegotiationError(i, t)

\* createPeerConnection after setLocalDescription(offer) resolved: the offer is sent.
OfferSent(i, t) ==
  /\ Finish(i, t)
  /\ conns' = [conns EXCEPT ![i][t.conn].sig = "have-local-offer"]
  /\ sendSignalingMessage(i, "offer", t.peer, Event("join+", i, t.peer))
  /\ UNCHANGED <<phase, supabaseChannel, subscribed, joining, peerConnections, connectionAttempts,
                 leavePc, leaveCalls, offerFailures, localStream, ended, handlers>>

\* handleOffer after setRemoteDescription resolved: createAnswer is called.
RemoteOfferSet(i, t) ==
  /\ Resume(i, t, "answer")
  /\ conns' = [conns EXCEPT ![i][t.conn].sig = "have-remote-offer"]
  /\ last' = Event("offer+", i, t.peer)
  /\ UNCHANGED <<phase, supabaseChannel, subscribed, joining, peerConnections, connectionAttempts,
                 leavePc, leaveCalls, net, offerFailures, localStream, ended, handlers>>

\* handleOffer after setLocalDescription(answer) resolved: the answer is sent.
AnswerSent(i, t) ==
  /\ Finish(i, t)
  /\ conns' = [conns EXCEPT ![i][t.conn].sig = "stable",
                            ![i][t.conn].done = "callee"]
  /\ sendSignalingMessage(i, "answer", t.peer, Event("offer+", i, t.peer))
  /\ UNCHANGED <<phase, supabaseChannel, subscribed, joining, peerConnections, connectionAttempts,
                 leavePc, leaveCalls, offerFailures, localStream, ended, handlers>>

\* handleAnswer after setRemoteDescription resolved.
AnswerApplied(i, t) ==
  /\ Finish(i, t)
  /\ conns' = [conns EXCEPT ![i][t.conn].sig = "stable",
                            ![i][t.conn].done = "caller"]
  /\ last' = Event("answer+", i, t.peer)
  /\ UNCHANGED <<phase, supabaseChannel, subscribed, joining, peerConnections, connectionAttempts,
                 leavePc, leaveCalls, net, offerFailures, localStream, ended, handlers>>

Continue(i, t) ==
  CASE t.kind = "join" -> OfferSent(i, t)
    [] t.kind = "offer" /\ t.pc = "remote" -> RemoteOfferSet(i, t)
    [] t.kind = "offer" /\ t.pc = "answer" -> AnswerSent(i, t)
    [] t.kind = "answer" -> AnswerApplied(i, t)

\* The awaited operation of a suspended handler settles.
Settle(i) ==
  \E t \in tasks[i], rollback \in BOOLEAN :
    IF Accepts(conns[i][t.conn], t, rollback) THEN Continue(i, t) ELSE Reject(i, t)

\* The platform rejects an operation the signaling state would allow
\* (createOffer fails, a description is malformed).
PlatformFailure(i) ==
  \E t \in tasks[i] :
    /\ Accepts(conns[i][t.conn], t, TRUE)
    /\ Reject(i, t)

\* ------------------------------------------------------- platform events
\* Whether a description has been applied to the connection: only then does it
\* have transports whose state can change, and receivers that can emit tracks.
HasDescription(cn) == cn.sig \notin {"stable", "closed"} \/ cn.done # "none"

HasRemoteDescription(cn) == cn.sig = "have-remote-offer" \/ cn.done # "none"

\* ontrack of connection c: the record found under the peer id gets a new stream
\* (1: set), and onRemoteStream is invoked.
ontrack(i, c) ==
  LET cn == conns[i][c]
      rec == peerConnections[i][cn.peer] IN
  /\ cn.peer # 0 /\ HasRemoteDescription(cn)
  /\ peerConnections' =
       IF rec.conn # 0
       THEN [peerConnections EXCEPT ![i][cn.peer].stream = 1]
       ELSE peerConnections
  /\ last' = [Event("track", i, cn.peer) EXCEPT !.remote = cn.peer]
  /\ UNCHANGED <<phase, supabaseChannel, subscribed, joining, connectionAttempts, conns, tasks,
                 leavePc, leaveCalls, net, offerFailures, localStream, ended, handlers>>

\* onconnectionstatechange of connection c with connectionState disconnected,
\* failed or closed (close() itself fires no event).
onconnectionstatechange(i, c) ==
  LET cn == conns[i][c] IN
  /\ cn.peer # 0 /\ HasDescription(cn)
  /\ handlePeerLeave(i, cn.peer, [Event("state", i, cn.peer) EXCEPT
                                    !.stale = (peerConnections[i][cn.peer].conn # c)])
  /\ UNCHANGED <<phase, supabaseChannel, subscribed, joining, leavePc, leaveCalls, net, offerFailures, localStream, ended, handlers>>

\* oniceconnectionstatechange of connection c with iceConnectionState failed:
\* restartIce() is called, which changes nothing the orchestrator keeps.
\* aggregate: the platform derives connectionState from the ICE state and fires
\* connectionstatechange with "failed" in the same task (true), or it has no
\* connectionState (false).
oniceconnectionstatechange(i, c) ==
  LET cn == conns[i][c] IN
  /\ cn.peer # 0 /\ HasDescription(cn)
  /\ \E aggregate \in BOOLEAN :
       IF aggregate
       THEN handlePeerLeave(i, cn.peer, [Event("ice", i, cn.peer) EXCEPT
                                         !.stale = (peerConnections[i][cn.peer].conn # c)])
       ELSE /\ last' = Event("ice", i, cn.peer)
            /\ UNCHANGED <<conns, peerConnections, connectionAttempts, tasks>>
  /\ UNCHANGED <<phase, supabaseChannel, subscribed, joining, leavePc, leaveCalls, net,
                 offerFailures, localStream, ended, handlers>>

\* ------------------------------------------------------- updateLocalStream
\* The tracks of the old stream are stopped and every sender of a registered
\* connection that holds one of them gets replaceTrack(null); then the tracks of
\* the new stream are added to every registered connection.  addTrack throws
\* InvalidAccessError on a connection that already has a sender for the track:
\* the connections the forEach visited before it (served) have the new tracks.
\* Meeting swaps between different streams.
updateLocalStream_AddOnly(i, newStream) ==
  LET reg == {peerConnections[i][p].conn : p \in {q \in Peers : peerConnections[i][q].conn # 0}}
  IN
  /\ newStream # localStream[i]
  /\ localStream' = [localStream EXCEPT ![i] = newStream]
  /\ ended' = [ended EXCEPT ![i] = @ \cup TracksOf(localStream[i])]
  /\ conns' = [conns EXCEPT ![i] =
       [c \in Slots |-> IF c \in reg
                        THEN [conns[i][c] EXCEPT !.senders = @ \cup TracksOf(newStream)]
                        ELSE conns[i][c]]]
  /\ last' = [Event("updateLocalStream", i, 0) EXCEPT !.stopped = localStream[i]]
  /\ UNCHANGED <<phase, supabaseChannel, subscribed, joining, peerConnections, connectionAttempts,
                 tasks, leavePc, leaveCalls, net, offerFailures, handlers>>

updateLocalStream(i, newStream) ==
  LET old == localStream[i]
      reg == {peerConnections[i][p].conn : p \in {q \in Peers : peerConnections[i][q].conn # 0}}
      dropped(cn) == [cn EXCEPT !.senders = @ \ TracksOf(old)]
      swapped(cn) == [cn EXCEPT !.senders = (@ \ TracksOf(old)) \cup TracksOf(newStream)]
      clash == {c \in reg : TracksOf(newStream) \cap dropped(conns[i][c]).senders # {}}
  IN
  /\ newStream # old
  /\ localStream' = [localStream EXCEPT ![i] = newStream]
  /\ ended' = [ended EXCEPT ![i] = @ \cup TracksOf(localStream[i])]
  /\ IF clash = {}
     THEN /\ conns' = [conns EXCEPT ![i] =
                 [c \in Slots |-> IF c \in reg THEN swapped(conns[i][c]) ELSE conns[i][c]]]
          /\ last' = [Event("updateLocalStream", i, 0) EXCEPT !.stopped = old]
     ELSE \E served \in SUBSET (reg \ clash) :
            /\ conns' = [conns EXCEPT ![i] =
                 [c \in Slots |-> IF c \in served THEN swapped(conns[i][c])
                                  ELSE IF c \in reg THEN dropped(conns[i][c])
                                  ELSE conns[i][c]]]
            /\ last' = [Event("updateLocalStream", i, 0) EXCEPT !.stopped = old,
                                                               !.threw = TRUE]
  /\ UNCHANGED <<phase, supabaseChannel, subscribed, joining, peerConnections, connectionAttempts,
                 tasks, leavePc, leaveCalls, net, offerFailures, handlers>>

\* ---------------------------------------------------------------- leaveRoom
Registered(i) == {p \in Peers : peerConnections[i][p].conn # 0}

\* Close every connection of the registry, clear it, stop the tracks of the
\* local stream and forget it.
Teardown(i) ==
  /\ conns' = [conns EXCEPT ![i] =
       Collect([c \in Slots |->
                  IF \E p \in Peers : peerConnections[i][p].conn = c
                  THEN Close(conns[i][c])
                  ELSE conns[i][c]], tasks[i])]
  /\ peerConnections' = [peerConnections EXCEPT ![i] = [p \in Peers |-> NoRec]]
  /\ localStream' = [localStream EXCEPT ![i] = 0]
  /\ ended' = [ended EXCEPT ![i] = @ \cup TracksOf(localStream[i])]

\* leaveRoom announcing the Leave only when the registry holds a record.
leaveRoom_SilentWhenEmpty(i) ==
  /\ leavePc[i] = "idle"
  /\ leaveCalls[i] < MaxLeaveCalls
  /\ leaveCalls' = [leaveCalls EXCEPT ![i] = @ + 1]
  /\ IF supabaseChannel[i]
     THEN /\ IF Registered(i) # {}
             THEN sendSignalingMessage(i, "leave", 0, Event("leaveRoom", i, 0))
             ELSE last' = Event("leaveRoom", i, 0) /\ UNCHANGED net
          /\ leavePc' = [leavePc EXCEPT ![i] = "leaving"]
          /\ UNCHANGED <<conns, peerConnections, localStream, ended>>
     ELSE /\ Teardown(i)
          /\ last' = [Event("leaveRoom", i, 0) EXCEPT !.removed = Registered(i),
                                                     !.stopped = localStream[i]]
          /\ UNCHANGED <<leavePc, net>>
  /\ UNCHANGED <<phase, supabaseChannel, subscribed, joining, connectionAttempts, tasks,
                 offerFailures, handlers>>

\* leaveRoom up to its first await: the Leave broadcast when there is a channel,
\* the whole teardown when there is none.
leaveRoom(i) ==
  /\ leavePc[i] = "idle"
  /\ leaveCalls[i] < MaxLeaveCalls
  /\ leaveCalls' = [leaveCalls EXCEPT ![i] = @ + 1]
  /\ IF supabaseChannel[i]
     THEN /\ sendSignalingMessage(i, "leave", 0, Event("leaveRoom", i, 0))
          /\ leavePc' = [leavePc EXCEPT ![i] = "leaving"]
          /\ UNCHANGED <<conns, peerConnections, localStream, ended>>
     ELSE /\ Teardown(i)
          /\ last' = [Event("leaveRoom", i, 0) EXCEPT !.removed = Registered(i),
                                                     !.stopped = localStream[i]]
          /\ UNCHANGED <<leavePc, net>>
  /\ UNCHANGED <<phase, supabaseChannel, subscribed, joining, connectionAttempts, tasks,
                 offerFailures, handlers>>

\* leaveRoom after the send and the unsubscribe resolved (the send's resolution
\* changes nothing, so the two awaits are one suspension).
leaveRoomTeardown(i) ==
  /\ leavePc[i] = "leaving"
  /\ leavePc' = [leavePc EXCEPT ![i] = "idle"]
  /\ subscribed' = [subscribed EXCEPT ![i] = FALSE]
  /\ joining' = [joining EXCEPT ![i] = FALSE]
  /\ Teardown(i)
  /\ last' = [Event("leaveRoom+", i, 0) EXCEPT !.removed = Registered(i),
                                              !.stopped = localStream[i]]
  /\ UNCHANGED <<phase, supabaseChannel, connectionAttempts, tasks, leaveCalls, net,
                 offerFailures, handlers>>

\* ================================================================= claims
RecordOf(i, p) == peerConnections[i][p]

ConnOf(i, p) == conns[i][RecordOf(i, p).conn]

\* No instance of the room is initializing, no message is in flight, no handler
\* is suspended.
Settled ==
  /\ net = {}
  /\ \A i \in Room : phase[i] = "joined" /\ tasks[i] = {}

\* C1 (mesh completeness): once every peer has joined and no signaling is in flight
\* or being handled, every pair of peers holds a record for each other on both
\* sides, and exactly one offer/answer exchange completed between them: one side
\* completed it as the caller and the other as the callee.
C1_MeshComplete ==
  Settled =>
    \A a \in Room, b \in Room :
      a < b =>
        /\ RecordOf(a, b).conn # 0
        /\ RecordOf(b, a).conn # 0
        /\ {ConnOf(a, b).done, ConnOf(b, a).done} = {"caller", "callee"}

\* C2 (caller/callee asymmetry): an Offer is sent only by createPeerConnection run
\* for a Join whose senderId is not the local userId, and handleOffer sends nothing
\* but an Answer.
C2_OfferOnlyForRemoteJoin ==
  /\ last.sent = "offer" => (last.op = "join+" /\ last.peer # last.inst)
  /\ last.op \in {"offer", "offer+"} => last.sent \in {"none", "answer"}
  /\ last.op \in {"ignored", "join"} => last.sent = "none"
  /\ \A i \in Peers : \A t \in tasks[i] : t.kind = "join" => t.peer # i

\* C2 witness: an instance that has announced its Join sends an Offer.
C2_Witness ==
  /\ last.sent = "offer"
  /\ last.inst = Self
  /\ phase[Self] = "joined"

\* C3 (no glare): no instance handles an inbound Offer on a connection whose own
\* Offer is still waiting for its Answer.
C3_NoGlare ==
  \A i \in Peers : \A t \in tasks[i] :
    (t.kind = "offer" /\ t.pc = "remote") => conns[i][t.conn].sig # "have-local-offer"

\* C4 (single record per peer id, with reuse): a Join or an Offer handled while a
\* record for its sender exists creates no connection object and leaves the record
\* in place, the Offer being handled on the record's connection; and every record
\* holds an open connection bound to its own peer id.
C4_ReuseExistingRecord ==
  /\ (last.op \in {"join", "offer"} /\ last.had) =>
       /\ ~last.created
       /\ ~last.threw
       /\ RecordOf(last.inst, last.peer).conn # 0
       /\ last.op = "offer" =>
            \E t \in tasks[last.inst] :
              /\ t.kind = "offer" /\ t.pc = "remote" /\ t.peer = last.peer
              /\ t.conn = RecordOf(last.inst, last.peer).conn
  /\ \A i \in Peers, p \in Peers :
       RecordOf(i, p).conn # 0 =>
         /\ ConnOf(i, p).peer = p
         /\ ConnOf(i, p).sig # "closed"

\* C4 witness: an Offer arrives while the Join handler of the same peer is still
\* suspended on the record's connection.
C4_Witness ==
  /\ last.op = "offer" /\ last.had
  /\ \E t \in tasks[Self] :
       t.kind = "join" /\ t.peer = last.peer /\ t.conn = RecordOf(Self, last.peer).conn

\* C5 (no entry for the local id): the registry of an instance never holds a
\* record under the instance's own userId, and no connection is bound to it.
C5_NoSelfRecord ==
  \A i \in Peers :
    /\ RecordOf(i, i).conn = 0
    /\ \A c \in Slots : conns[i][c].peer # i

\* C5 witness: a message that carries the local id as senderId has been handled
\* while the registry holds a record.
C5_Witness ==
  /\ last.op \in {"ignored", "leave"}
  /\ last.inst = Self /\ last.peer = Self
  /\ \E p \in Peers : RecordOf(Self, p).conn # 0

\* C6 (onRemoteStream once per record): a track event for a record whose stream is
\* already set does not invoke onRemoteStream again.
C6_RemoteStreamOnce ==
  (last.op = "track" /\ last.had /\ last.stream) => last.remote = 0

\* C7 (single disconnect notification): a connection-state change to disconnected,
\* failed or closed and a Leave invoke onPeerDisconnected exactly when a record of
\* the peer is in the registry, and remove that record, so the second of them, and
\* any repetition, notifies nobody; no notification is given without a removal.
C7_SingleDisconnect ==
  /\ last.op \in {"state", "leave"} =>
       /\ last.disc = (IF last.had THEN {last.peer} ELSE {})
       /\ RecordOf(last.inst, last.peer).conn = 0
  /\ last.disc \subseteq last.removed

\* C7 witness: a connection-state change has removed a record and notified once.
C7_Witness ==
  /\ last.op = "state" /\ last.had
  /\ last.disc = {last.peer}

\* C8 (every removal notifies): whenever a record leaves the registry,
\* onPeerDisconnected is invoked for its peer.
C8_RemovalNotifies == last.removed \subseteq last.disc

\* A Join of a peer without a record has just been handled.
JoinWithoutRecord == last.op = "join" /\ last.peer # last.inst /\ ~last.had

\* The Join just handled was rejected: nothing was created, stored or started.
JoinRejected ==
  /\ last.threw
  /\ ~last.created
  /\ last.sent = "none"
  /\ RecordOf(last.inst, last.peer).conn = 0

\* C9 as stated (attempt cutoff): once offer creation has failed 3 times for a
\* peer, the next attempt to create a caller-role connection for it is rejected
\* before a connection object is created or a record is stored, and without
\* creating an offer again.
C9_RejectedAfterThreeFailures ==
  (JoinWithoutRecord /\ last.peer \in DOMAIN offerFailures
     /\ offerFailures[last.peer] >= maxConnectionAttempts)
  => JoinRejected

\* C9 amended (attempt cutoff): whenever the attempt counter of a peer is at the
\* maximum, which 3 failed offer creations produce unless a Leave or a
\* connection-state change of that peer was handled in between while its record
\* existed, the next attempt to create a caller-role connection for it is rejected
\* before a connection object is created or a record is stored, and without
\* creating an offer again; the counter stays at the maximum.
C9_RejectedAtMaxAttempts ==
  /\ (JoinWithoutRecord /\ last.attempts >= maxConnectionAttempts) =>
       /\ JoinRejected
       /\ connectionAttempts[last.inst][last.peer] = maxConnectionAttempts
  /\ (JoinWithoutRecord /\ last.attempts < maxConnectionAttempts) => last.created
  /\ \A i \in Peers, p \in Peers : connectionAttempts[i][p] <= maxConnectionAttempts

\* C9 witness: the Join after three failed offer creations is rejected.
C9_Witness ==
  /\ JoinWithoutRecord /\ last.threw
  /\ last.peer \in DOMAIN offerFailures
  /\ offerFailures[last.peer] = maxConnectionAttempts
  /\ last.attempts = maxConnectionAttempts

\* C10 (a Join starts afresh): a Join of a peer whose attempt counter is at the
\* maximum is accepted: a record is created for it.
C10_JoinStartsAfresh ==
  (JoinWithoutRecord /\ last.attempts >= maxConnectionAttempts)
  => (last.created /\ ~last.threw)

\* C11 (the counter lives with the record): in every step, the attempt counter of
\* a peer whose record stays in the registry keeps its value or grows, and a
\* counter is lowered only by being deleted, in a step that removes the record of
\* its peer.
C11_CounterKeptWithRecord ==
  [][\A i \in Peers, p \in Peers :
       /\ (RecordOf(i, p).conn # 0 /\ peerConnections'[i][p].conn # 0) =>
            connectionAttempts'[i][p] >= connectionAttempts[i][p]
       /\ connectionAttempts'[i][p] < connectionAttempts[i][p] =>
            /\ connectionAttempts'[i][p] = 0
            /\ RecordOf(i, p).conn # 0
            /\ peerConnections'[i][p].conn = 0]_vars

\* C11 witness: a Leave or a connection-state change has removed a record whose
\* counter had grown to 2 or more, and the counter with it.
C11_Witness ==
  /\ last.op \in {"leave", "state"}
  /\ last.had /\ last.attempts >= 2
  /\ last.removed = {last.peer}
  /\ connectionAttempts[last.inst][last.peer] = 0

\* leaveRoom has sent its Leave, unsubscribed and returned, and has not been
\* called again since.
HasLeft(i) ==
  /\ supabaseChannel[i] /\ ~subscribed[i] /\ ~joining[i]
  /\ leavePc[i] = "idle"

\* C12 (clean leave, once): a leaveRoom called after an earlier leaveRoom has
\* sent its Leave and returned does not broadcast Leave again.
C12_LeaveBroadcastOnce ==
  (last.op = "leaveRoom" /\ supabaseChannel[last.inst]
     /\ ~subscribed[last.inst] /\ ~joining[last.inst])
  => last.sent = "none"

C14_EmptyLeaveOnlyBroadcasts ==
  (last.op = "leaveRoom+" /\ last.removed = {}) => last.stopped = 0

\* C14 amended (leaveRoom with an empty registry): a step of leaveRoom taken with
\* an empty registry raises no error, closes no connection, changes no record and
\* no counter and invokes no callback; its first step broadcasts Leave (or logs
\* the error of the send) whenever the signaling channel has been set up, and its last step unsubscribes, stops
\* the tracks of the local stream and sets the local stream to null.
C14_EmptyLeaveEffects ==
  [][(last'.op \in {"leaveRoom", "leaveRoom+"} /\ Registered(last'.inst) = {}) =>
       /\ conns' = conns
       /\ peerConnections' = peerConnections
       /\ connectionAttempts' = connectionAttempts
       /\ tasks' = tasks
       /\ ~last'.threw /\ last'.disc = {} /\ last'.remote = 0
       /\ (last'.op = "leaveRoom" /\ supabaseChannel[last'.inst]) =>
            ((last'.sent = "leave" \/ last'.sendFailed) /\ localStream' = localStream)
       /\ (last'.op = "leaveRoom+" \/ ~supabaseChannel[last'.inst]) =>
            /\ last'.sent = "none"
            /\ ~subscribed'[last'.inst]
            /\ last'.stopped = localStream[last'.inst]
            /\ localStream'[last'.inst] = 0]_vars

\* C14 witness: leaveRoom has run to its end with an empty registry, after its
\* Leave broadcast, and has stopped the tracks of the camera stream.
C14_Witness ==
  /\ last.op = "leaveRoom+" /\ last.removed = {}
  /\ last.stopped = Camera
  /\ localStream[Self] = 0
  /\ \A c \in Slots : conns[Self][c].peer = 0

\* C15 (stream-swap continuity): a call of updateLocalStream with a new stream
\* sends no message (so no Offer and no Answer), leaves the registry as it is and
\* closes no connection, and afterwards every connection of the registry has a
\* sender for the tracks of the new stream and no sender for a track of the
\* previous stream.
C15_SwapKeepsConnections ==
  [][(last'.op = "updateLocalStream" /\ localStream'[last'.inst] # 0) =>
       LET i == last'.inst IN
       /\ net' = net
       /\ peerConnections' = peerConnections
       /\ \A c \in Slots : /\ conns'[i][c].peer = conns[i][c].peer
                            /\ conns'[i][c].sig = conns[i][c].sig
       /\ \A p \in Registered(i) :
            LET cn == conns'[i][RecordOf(i, p).conn] IN
            /\ cn.sig # "closed"
            /\ TracksOf(localStream'[i]) \subseteq cn.senders
            /\ TracksOf(localStream[i]) \cap cn.senders = {}]_vars

\* C15 witness: the camera stream has just been swapped for another stream while
\* the registry held two records, and both connections send the new stream only.
C15_Witness ==
  /\ last.op = "updateLocalStream" /\ last.stopped = Camera
  /\ Cardinality(Registered(Self)) = 2
  /\ localStream[Self] \notin {0, Camera}
  /\ \A p \in Registered(Self) :
       conns[Self][RecordOf(Self, p).conn].senders = TracksOf(localStream[Self])

\* C16 (stream swap atomic with respect to the registry): in every reachable
\* state, the connection of every record of the registry sends exactly the tracks
\* of the current local stream, and no track when the local stream is null.
C16_RecordsCarryLocalStream ==
  \A i \in Peers : \A p \in Registered(i) :
    conns[i][RecordOf(i, p).conn].senders = TracksOf(localStream[i])

\* C17 (ICE recovery): when the ICE state of the connection of a record has
\* become failed and the handlers of that event have run, the record is still in
\* the registry and onPeerDisconnected has not been invoked.
C17_IceFailureKeepsRecord ==
  (last.op = "ice" /\ last.had) =>
    /\ last.disc = {}
    /\ RecordOf(last.inst, last.peer).conn # 0

\* C18 (negotiation failure closes the peer's record): when an operation awaited
\* while handling a Join, an Offer or an Answer of peer P has failed and the catch
\* block has run, the registry holds no record for P.
C18_NegotiationFailureRemoves ==
  (last.failed /\ last.op \in {"join+", "offer+", "answer+"}) =>
    RecordOf(last.inst, last.peer).conn = 0

\* C19 (error isolation): a step in which the handling of a message of peer P
\* fails (an awaited negotiation operation rejects, addIceCandidate rejects, or
\* the attempt limit is reached) leaves the record, the connection of the record
\* and the attempt counter of every other peer Q unchanged, and leaves the
\* instance subscribed with its one callback, so that it handles later messages.
C19_ErrorIsolation ==
  [][(last'.failed \/ last'.threw) =>
       LET i == last'.inst
           P == last'.peer IN
       /\ \A Q \in Peers \ {P} :
            /\ peerConnections'[i][Q] = peerConnections[i][Q]
            /\ connectionAttempts'[i][Q] = connectionAttempts[i][Q]
            /\ RecordOf(i, Q).conn # 0 =>
                 conns'[i][RecordOf(i, Q).conn] = conns[i][RecordOf(i, Q).conn]
       /\ phase'[i] = "joined" /\ subscribed'[i]
       /\ handlers' = handlers /\ supabaseChannel' = supabaseChannel]_vars

\* C19 witness: the offer creation for one peer has failed, which removed its
\* record, while the registry holds the record of another peer whose attempt
\* counter is positive.
C19_Witness ==
  /\ last.op = "join+" /\ last.failed /\ last.threw
  /\ last.removed = {last.peer}
  /\ \E Q \in Registered(Self) \ {last.peer} :
       /\ connectionAttempts[Self][Q] >= 1
       /\ conns[Self][RecordOf(Self, Q).conn].sig # "closed"

\* C20 (second initialize while joined): an instance never has more than one
\* callback bound to the broadcasts of its room, whatever the number of calls of
\* initialize.
C20_SingleSubscription ==
  \A i \in Peers : handlers[i] <= 1

\* C21 (join the room, then announce): when initialize has sent its Join, the
\* instance is subscribed to the room, so that the Offers answering the Join reach
\* it.
C21_JoinAfterSubscribed ==
  (last.op = "initialize" /\ last.sent = "join") => subscribed[last.inst]

\* C22 (sending is best-effort): a step in which channel.send fails does not end
\* by throwing, puts no message in flight, and leaves the registry, the attempt
\* counters and the local stream unchanged.
C22_SendFailureIsSilent ==
  [][last'.sendFailed =>
       /\ ~last'.threw
       /\ last'.sent = "none" /\ net' = net
       /\ peerConnections' = peerConnections
       /\ connectionAttempts' = connectionAttempts
       /\ localStream' = localStream]_vars

\* C22 witness: the send of an Offer has failed while the registry holds the
\* record of the peer the Offer was for, with its attempt counted.
C22_Witness ==
  /\ last.sendFailed /\ last.op = "join+"
  /\ RecordOf(last.inst, last.peer).conn # 0
  /\ connectionAttempts[last.inst][last.peer] >= 1
  /\ localStream[last.inst] = Camera

\* C23 (messages without a record change nothing): the handling of an Answer, a
\* Candidate or a Leave whose sender has no record in the registry, and of a
\* Candidate whose candidate is null, creates no record and no connection,
\* changes no counter, suspends no handler, sends no message and invokes no
\* callback.
C23_NoRecordNoEffect ==
  [][((last'.op \in {"answer", "candidate", "leave"} /\ ~last'.had)
        \/ last'.op = "end-of-candidates") =>
       /\ peerConnections' = peerConnections
       /\ connectionAttempts' = connectionAttempts
       /\ conns' = conns
       /\ tasks' = tasks
       /\ net' = net /\ last'.sent = "none"
       /\ ~last'.created /\ ~last'.threw
       /\ last'.disc = {} /\ last'.remote = 0]_vars

\* C23 witness: an Answer has been handled whose sender has no record while its
\* attempt counter is positive (an earlier offer creation for it failed).
C23_Witness ==
  /\ last.op = "answer" /\ ~last.had
  /\ last.peer # last.inst
  /\ RecordOf(last.inst, last.peer).conn = 0
  /\ connectionAttempts[last.inst][last.peer] >= 1

\* C24 (targeted handshake): an instance that holds a record for the sender of an
\* Offer applies the Offer to the connection of that record only when the Offer
\* was created for it (in response to its own Join).
C24_OfferAppliedByTargetOnly ==
  (last.op = "offer" /\ last.had) =>
    \A t \in tasks[last.inst] :
      (t.kind = "offer" /\ t.pc = "remote" /\ t.peer = last.peer) => t.target = last.inst

C26_NothingSentAfterLeave ==
  [][(last.op = "leaveRoom" /\ last.sent = "leave" /\ last'.inst = last.inst) =>
       last'.sent \notin {"offer", "answer", "candidate"}]_vars

C28_AttachedTracksLive ==
  last.op = "updateLocalStream" =>
    \A p \in Registered(last.inst) :
      conns[last.inst][RecordOf(last.inst, p).conn].senders \cap ended[last.inst] = {}

C30_AttemptCounter ==
  /\ [](\A i \in Peers, p \in Peers : connectionAttempts[i][p] \in 0..maxConnectionAttempts)
  /\ [][/\ \A i \in Peers, p \in Peers :
            connectionAttempts'[i][p] # connectionAttempts[i][p] =>
              /\ last'.inst = i /\ last'.peer = p
              /\ \/ /\ connectionAttempts'[i][p] = connectionAttempts[i][p] + 1
                     /\ last'.op = "join" /\ last'.created /\ ~last'.had
                     /\ RecordOf(i, p).conn = 0 /\ peerConnections'[i][p].conn # 0
                 \/ /\ connectionAttempts'[i][p] = 0
                     /\ last'.op \in {"leave", "state", "ice"}
                     /\ last'.had /\ last'.removed = {p}
        /\ ((last'.op = "join" /\ last'.had)
              \/ last'.op \in {"offer", "answer", "candidate", "end-of-candidates",
                                "join+", "offer+", "answer+", "updateLocalStream",
                                "leaveRoom", "leaveRoom+"}) =>
             connectionAttempts' = connectionAttempts]_vars

\* C30 witness: createPeerConnection has created a connection and a record for a
\* Join, which took the counter of the peer from one below the maximum to the
\* maximum.
C30_Witness ==
  /\ last.op = "join" /\ last.created
  /\ last.attempts = maxConnectionAttempts - 1
  /\ connectionAttempts[last.inst][last.peer] = maxConnectionAttempts
  /\ RecordOf(last.inst, last.peer).conn # 0

\* ------------------------------------------------------------ deliveries
\* A message of the room reaches the broadcast handler of its addressee.
Deliver ==
  \E m \in net :
    /\ subscribed[m.to]
    /\ net' = net \ {m}
    /\ handleSignalingMessage(m.to, m)
    /\ HandlerFrame

\* The environment of Spec: any message, from any sender id (Self's own too: a
\* second session of the same account), reaches Self.
\* No handler reads how far initialize has come, so the deliveries made before
\* the Join announcement are left out.
MessageTypes == {"join", "offer", "answer", "candidate", "leave"}

ReceiveOf(types, senders) ==
  \E type \in types, from \in senders :
    /\ subscribed[Self]
    /\ phase[Self] = "joined"
    /\ handleSignalingMessage(Self, Msg(type, from, Self, Self))
    /\ HandlerFrame
    /\ UNCHANGED net

ReceiveFrom(senders) == ReceiveOf(MessageTypes, senders)

Receive == ReceiveFrom(Room)

Next ==
  \/ setupSignalingChannel(Self)
  \/ onSubscribed(Self)
  \/ initialize(Self)
  \/ Receive
  \/ Settle(Self)
  \/ PlatformFailure(Self)
  \/ \E c \in Slots : ontrack(Self, c)
  \/ \E c \in Slots : onconnectionstatechange(Self, c)
  \/ leaveCalls[Self] = 0 /\ leaveRoom(Self)
  \/ leaveRoomTeardown(Self)

Spec == Init /\ [][Next]_vars

\* Spec with the failed offer creations of every remote peer id counted.
AuditInit ==
  /\ phase = [i \in Peers |-> "new"]
  /\ supabaseChannel = [i \in Peers |-> FALSE]
  /\ subscribed = [i \in Peers |-> FALSE]
  /\ joining = [i \in Peers |-> FALSE]
  /\ peerConnections = [i \in Peers |-> [p \in Peers |-> NoRec]]
  /\ connectionAttempts = [i \in Peers |-> [p \in Peers |-> 0]]
  /\ conns = [i \in Peers |-> [c \in Slots |-> Free]]
  /\ tasks = [i \in Peers |-> {}]
  /\ leavePc = [i \in Peers |-> "idle"]
  /\ leaveCalls = [i \in Peers |-> 0]
  /\ net = {}
  /\ offerFailures = [p \in Room \ {Self} |-> 0]
  /\ localStream = [i \in Peers |-> 0]
  /\ ended = [i \in Peers |-> {}]
  /\ handlers = [i \in Peers |-> 0]
  /\ last = NoEvent

\* The steps of Spec that create, fail and remove connections: the candidates
\* and the track events, which change no connection and no counter, are left out.
AuditNext ==
  \/ setupSignalingChannel(Self)
  \/ onSubscribed(Self)
  \/ initialize(Self)
  \/ ReceiveOf(MessageTypes \ {"candidate"}, Room)
  \/ Settle(Self)
  \/ PlatformFailure(Self)
  \/ \E c \in Slots : onconnectionstatechange(Self, c)
  \/ leaveCalls[Self] = 0 /\ leaveRoom(Self)
  \/ leaveRoomTeardown(Self)

AuditSpec == AuditInit /\ [][AuditNext]_vars

\* The room of NumPeers instances: every message in flight was sent by one of them,
\* and no platform operation fails unless the signaling state forbids it.
MeshNext ==
  \/ \E i \in Room : setupSignalingChannel(i)
  \/ \E i \in Room : onSubscribed(i)
  \/ \E i \in Room : initialize(i)
  \/ Deliver
  \/ \E i \in Room : Settle(i)

MeshSpec == Init /\ [][MeshNext]_vars

\* A room of NumPeers instances that arrive one after the other: an instance
\* calls initialize once the instances of the lower user ids have announced
\* their Join and no message or handler of theirs is pending.
Arrived(i) ==
  /\ net = {}
  /\ \A j \in Peers : j < i => (phase[j] = "joined" /\ subscribed[j] /\ tasks[j] = {})

TrioNext ==
  \/ \E i \in Peers : Arrived(i) /\ setupSignalingChannel(i)
  \/ \E i \in Peers : onSubscribed(i)
  \/ \E i \in Peers : initialize(i)
  \/ Deliver
  \/ \E i \in Peers : Settle(i)

TrioSpec == Init /\ [][TrioNext]_vars

\* Self with its media: the local stream is replaced by a display stream or
\* removed, and initialize is called again with the camera stream, while messages
\* of the room arrive.
StreamNext ==
  \/ setupSignalingChannel(Self)
  \/ onSubscribed(Self)
  \/ initialize(Self)
  \/ initializeAgain(Self)
  \/ ReceiveFrom(Room \ {Self})
  \/ Settle(Self)
  \/ \E newStream \in (Streams \cup {0}) \ {Camera} : updateLocalStream(Self, newStream)

StreamSpec == Init /\ [][StreamNext]_vars

\* Self in a room with every other user id while the camera stream is replaced
\* by a display stream.
SwapNext ==
  \/ setupSignalingChannel(Self)
  \/ onSubscribed(Self)
  \/ initialize(Self)
  \/ ReceiveOf(MessageTypes \ {"candidate"}, Peers \ {Self})
  \/ Settle(Self)
  \/ \E newStream \in Streams \ {Camera} : updateLocalStream(Self, newStream)

SwapSpec == Init /\ [][SwapNext]_vars

\* Self and the screen-share toggle of the meeting page: updateLocalStream is
\* called with a display stream just captured, and then with the camera stream
\* the page has held since it called initialize.
toggleScreenShare(i) ==
  \E newStream \in Streams :
    /\ newStream = Camera \/ newStream \notin ended[i]
    /\ phase[i] = "joined"
    /\ updateLocalStream(i, newStream)

ShareNext ==
  \/ setupSignalingChannel(Self)
  \/ onSubscribed(Self)
  \/ initialize(Self)
  \/ ReceiveFrom(Room \ {Self})
  \/ Settle(Self)
  \/ toggleScreenShare(Self)

ShareSpec == Init /\ [][ShareNext]_vars

\* Self in a room with every other user id, none of which leaves, while platform
\* operations fail.
FaultNext ==
  \/ setupSignalingChannel(Self)
  \/ onSubscribed(Self)
  \/ initialize(Self)
  \/ ReceiveOf(MessageTypes \ {"leave"}, Peers \ {Self})
  \/ Settle(Self)
  \/ PlatformFailure(Self)

FaultSpec == Init /\ [][FaultNext]_vars

\* Self leaving the room, up to MaxLeaveCalls times, while messages arrive.
LeaveNext ==
  \/ setupSignalingChannel(Self)
  \/ onSubscribed(Self)
  \/ initialize(Self)
  \/ Receive
  \/ Settle(Self)
  \/ leaveRoom(Self)
  \/ leaveRoomTeardown(Self)

LeaveSpec == Init /\ [][LeaveNext]_vars

\* Self and the state events of its connections.
EventNext ==
  \/ setupSignalingChannel(Self)
  \/ onSubscribed(Self)
  \/ initialize(Self)
  \/ Receive
  \/ Settle(Self)
  \/ \E c \in Slots : onconnectionstatechange(Self, c)
  \/ \E c \in Slots : oniceconnectionstatechange(Self, c)

EventSpec == Init /\ [][EventNext]_vars
====
